---- MODULE Spec2Model ----
(***************************************************************************)
(* A model of scanner.py, the penny-stock scan pipeline:                   *)
(*   load_universe  -> scan_universe (chunk, dl_batch, extract, filter,    *)
(*   sort)          -> main (plan_rows, CSV, Discord notification).        *)
(*                                                                         *)
(* Numbers.  The program computes on binary doubles.  The model computes   *)
(* on exact decimals held as scaled integers:                              *)
(*   prices            in units of 0.00001 dollar  (1.10 is 110000)        *)
(*   recorded prices   in the same unit, a multiple of 10 after round(x,4) *)
(*   volumes           in shares                                           *)
(*   VOL_RATIO_THRESHOLD, PCT_CHANGE_MIN   in units of 0.005               *)
(*   recorded VolRatio, PctChange          in units of 0.01                *)
(* round(x, n) rounds the double to the nearest n-decimal value.  When the *)
(* exact decimal value lies half way between two neighbours the double     *)
(* that stands for it lies just above or just below (or, when it is        *)
(* exactly representable, round() goes to the even neighbour), so the      *)
(* direction of a tie is an input of the model (tieUp), not a fixed rule.  *)
(***************************************************************************)
EXTENDS Integers, Sequences, FiniteSets, TLC

VARIABLES
    cfg,        \* the environment configuration read at import (lines 10-17)
    tieUp,      \* direction in which round() resolves an exact decimal tie
    pc,         \* position of the control thread
    tickers,    \* the universe handed to scan_universe
    bi,         \* index of the current batch (1-based), scan_universe's for loop
    att,        \* dl_batch's loop variable i (attempts already made, 0-based)
    ti,         \* index of the current ticker inside the batch
    results,    \* scan_universe's accumulator
    attempts,   \* history: per batch, the outcome of each retrieval attempt
    delays,     \* history: per batch, the seconds slept after each failed attempt
    evaluated,  \* history: tickers whose evaluation was entered, in order
    scan,       \* the table scan_universe returned (None before it returns)
    csv,        \* the rows written to the output file (None: no file written)
    discord,    \* the content posted to the webhook (None: nothing posted)
    getAtt,     \* safe_get's loop variable i
    resp,       \* the remote listing's outcome seen by load_universe
    maxSymbols, \* load_universe's argument
    universe    \* what load_universe returned (None before it returns)

vars == << cfg, tieUp, pc, tickers, bi, att, ti, results, attempts, delays,
           evaluated, scan, csv, discord, getAtt, resp, maxSymbols, universe >>

None == [none |-> TRUE]

----------------------------------------------------------------------------
(* Bounds of the model *)

\* scan_universe's BATCH is 100; the model runs the same loop on small batches
BATCH == 2
\* longest universe drawn freely from the catalogue (LongUniverses are longer)
MaxUniverse == 2
\* longest remote listing (rows of the Symbol column)
MaxListing == 3
\* largest max_symbols argument tried besides the default
MaxSymbolsArg == 3
\* most rows of a ranked table handed to main's report stage
MaxRows == 12

(* Program constants *)
Retries == 3
BackoffBase == 2
BackoffStep == 2
GetRetries == 3
MinObs == 5
Window == 20
DiscordCap == 10
MsgLimit == 1900
DefaultMaxSymbols == 600

----------------------------------------------------------------------------
(* Arithmetic helpers *)

RECURSIVE Sum(_)
Sum(s) == IF s = << >> THEN 0 ELSE Head(s) + Sum(Tail(s))

RECURSIVE MaxOf(_)
MaxOf(s) == IF Len(s) = 1 THEN s[1]
            ELSE LET m == MaxOf(Tail(s)) IN IF s[1] >= m THEN s[1] ELSE m

Max2(a, b) == IF a >= b THEN a ELSE b
Min2(a, b) == IF a <= b THEN a ELSE b

\* s.tail(k): the last k entries (all of them when there are fewer)
TailN(s, k) == IF Len(s) <= k THEN s ELSE SubSeq(s, Len(s) - k + 1, Len(s))

\* s.head(k) / s[:k] for k >= 0
HeadN(s, k) == IF Len(s) <= k THEN s ELSE SubSeq(s, 1, k)

\* The integer nearest to n/d (d > 0); an exact tie goes up iff `up`.
RoundRat(n, d, up) ==
    LET q == n \div d
        r == n % d
    IN  IF 2 * r < d THEN q
        ELSE IF 2 * r > d THEN q + 1
        ELSE IF up THEN q + 1 ELSE q

\* round(x, 4) of the price n/d (in price units): a multiple of 10
Round4(n, d, up) == 10 * RoundRat(n, d * 10, up)

----------------------------------------------------------------------------
(* Configuration: the environment variables of lines 10-17.  WEBHOOK is    *)
(* "DISCORD_WEBHOOK_URL is not empty".  NEWS_LOOKBACK_DAYS is kept at its  *)
(* default 0, under which main sets RecentNews48h to "No" on every row.    *)

CfgDefault ==
    [MIN_PRICE |-> 50000, MAX_PRICE |-> 300000, MIN_AVG_VOL |-> 500000,
     VOL_RATIO_THRESHOLD |-> 800, PCT_CHANGE_MIN |-> 1600,
     TOP_N |-> 8, WEBHOOK |-> FALSE]

\* the configuration of the specification's Example 1
CfgExample ==
    [MIN_PRICE |-> 50000, MAX_PRICE |-> 300000, MIN_AVG_VOL |-> 50000,
     VOL_RATIO_THRESHOLD |-> 600, PCT_CHANGE_MIN |-> 1600,
     TOP_N |-> 8, WEBHOOK |-> TRUE]

\* Example 2: PCT_CHANGE_MIN = 11.0
CfgExample2 ==
    [MIN_PRICE |-> 50000, MAX_PRICE |-> 300000, MIN_AVG_VOL |-> 50000,
     VOL_RATIO_THRESHOLD |-> 600, PCT_CHANGE_MIN |-> 2200,
     TOP_N |-> 1, WEBHOOK |-> TRUE]

\* thresholds that are not multiples of the recorded precision:
\* MIN_PRICE = 0.50004, VOL_RATIO_THRESHOLD = 3.005, PCT_CHANGE_MIN = 8.005
CfgOffGrid ==
    [MIN_PRICE |-> 50004, MAX_PRICE |-> 300000, MIN_AVG_VOL |-> 500,
     VOL_RATIO_THRESHOLD |-> 601, PCT_CHANGE_MIN |-> 1601,
     TOP_N |-> 2, WEBHOOK |-> FALSE]

\* a sub-penny floor: MIN_PRICE = 0.0001
CfgTiny ==
    [MIN_PRICE |-> 10, MAX_PRICE |-> 300000, MIN_AVG_VOL |-> 50000,
     VOL_RATIO_THRESHOLD |-> 600, PCT_CHANGE_MIN |-> 1600,
     TOP_N |-> 8, WEBHOOK |-> TRUE]

Configs == {CfgDefault, CfgExample, CfgExample2, CfgOffGrid, CfgTiny}

\* a threshold that is a multiple of the recorded precision
OnGrid4(p) == p % 10 = 0
OnGrid2(x) == x % 2 = 0

----------------------------------------------------------------------------
(* The market: what the data provider holds for each ticker, as the pair   *)
(* (Close, Volume) that extract_series returns after dropna().  A ticker   *)
(* of kind "malformed" is one whose columns make the evaluation raise      *)
(* (a non-numeric cell, a duplicated column).                              *)

Rep(x, n) == [i \in 1..n |-> x]

Series(c, v) == [kind |-> "series", c |-> c, v |-> v]

Market(t) ==
    CASE t = "ABC"  -> Series(Rep(100000, 5) \o <<110000>>,
                              Rep(100000, 5) \o <<500000>>)
      [] t = "TWIN" -> Series(Rep(200000, 5) \o <<220000>>,
                              Rep(100000, 5) \o <<500000>>)
      [] t = "EDGE" -> Series(Rep(270000, 4) \o <<299996>>,
                              Rep(50000, 4) \o <<300000>>)
      [] t = "BIG"  -> Series(Rep(150000, 4) \o <<180000>>,
                              Rep(125000, 4) \o <<2000000>>)
      [] t = "LONG" -> Series(<<190000>> \o Rep(100000, 19) \o <<120000>>,
                              <<9000000>> \o Rep(60000, 19) \o <<360000>>)
      [] t = "TINY" -> Series(Rep(30, 4) \o <<40>>,
                              Rep(50000, 4) \o <<300000>>)
      [] t = "OFFG" -> Series(Rep(46000, 4) \o <<50004>>,
                              Rep(50000, 4) \o <<400000>>)
      [] t = "OFFH" -> Series(Rep(46000, 4) \o <<50010>>,
                              Rep(50000, 4) \o <<400000>>)
      [] t = "TIE"  -> Series(Rep(100000, 4) \o <<108005>>,
                              Rep(399, 4) \o <<2404>>)
      [] t = "SHRT" -> Series(Rep(100000, 3) \o <<120000>>,
                              Rep(100000, 3) \o <<900000>>)
      [] OTHER      -> [kind |-> "malformed", c |-> << >>, v |-> << >>]

Catalogue == {"ABC", "TWIN", "EDGE", "BIG", "LONG", "TINY", "OFFG", "OFFH",
              "TIE", "SHRT", "BAD"}

\* extract_series: the (close, volume) pair of the ticker; never raises
extract_series(t) == Market(t)

----------------------------------------------------------------------------
(* The per-ticker evaluation: the body of the try block, lines 150-182.    *)

Rejected == [kind |-> "reject", rec |-> None]
Raised   == [kind |-> "raise", rec |-> None]
Accepted(r) == [kind |-> "accept", rec |-> r]

\* avg20 as the fraction sum/n: the last 20 volumes when there are 20, else all
Avg20(v) ==
    LET w == IF Len(v) >= Window THEN TailN(v, Window) ELSE v
    IN  [sum |-> Sum(w), n |-> Len(w)]

\* the record appended at lines 173-182
MakeRecord(t, last_px, pctN, pctD, avg, today_vol, ratN, ratD, hi20, up) ==
    [Ticker    |-> t,
     LastPrice |-> Round4(last_px, 1, up),
     PctChange |-> RoundRat(pctN * 100, pctD, up),
     AvgVol20d |-> avg.sum \div avg.n,
     TodayVol  |-> today_vol,
     VolRatio  |-> RoundRat(ratN * 100, ratD, up),
     High20d   |-> Round4(hi20, 1, up),
     Breakout  |-> last_px * 1000 >= hi20 * 995]

PriceBand_NoFloorMutant(c, last_px) == last_px < c.MAX_PRICE
PriceBand(c, last_px) == c.MIN_PRICE <= last_px /\ last_px < c.MAX_PRICE

Evaluate(c, t, up) ==
    LET d == extract_series(t) IN
    IF d.kind = "malformed" THEN Raised
    ELSE IF Len(d.c) = 0 \/ Len(d.v) = 0 \/ Len(d.c) < MinObs \/ Len(d.v) < MinObs
    THEN Rejected
    ELSE
    LET last_px == d.c[Len(d.c)] IN
    IF ~PriceBand(c, last_px) THEN Rejected
    ELSE
    LET avg == Avg20(d.v) IN
    IF avg.sum < c.MIN_AVG_VOL * avg.n THEN Rejected
    ELSE
    LET today_vol == d.v[Len(d.v)]
        \* vol_ratio = today_vol / avg20 if avg20 > 0 else 0.0
        ratN == IF avg.sum > 0 THEN today_vol * avg.n ELSE 0
        ratD == IF avg.sum > 0 THEN avg.sum ELSE 1
    IN
    IF ratN * 200 < c.VOL_RATIO_THRESHOLD * ratD THEN Rejected
    ELSE
    LET \* pct_change = (c[-1] / c[-2] - 1) * 100 if len(c) >= 2 else 0.0
        pctN == IF Len(d.c) >= 2 THEN (d.c[Len(d.c)] - d.c[Len(d.c) - 1]) * 100 ELSE 0
        pctD == IF Len(d.c) >= 2 THEN d.c[Len(d.c) - 1] ELSE 1
    IN
    IF pctN * 200 < c.PCT_CHANGE_MIN * pctD THEN Rejected
    ELSE
    LET hi20 == MaxOf(TailN(d.c, Window))
    IN  Accepted(MakeRecord(t, last_px, pctN, pctD, avg, today_vol,
                            ratN, ratD, hi20, up))

----------------------------------------------------------------------------
(* scan_universe, lines 136-192 *)

\* chunk(lst, n): the number of batches and the k-th batch (1-based)
NumBatches(lst) == (Len(lst) + BATCH - 1) \div BATCH
Batch(lst, k) == SubSeq(lst, (k - 1) * BATCH + 1, Min2(k * BATCH, Len(lst)))

\* dl_batch's sleep after failed attempt i (0-based): time.sleep(2 + i*2)
Backoff_FlatMutant(i) == BackoffBase
Backoff(i) == BackoffBase + i * BackoffStep

\* dl_batch after failed attempt i: another attempt, or return None, upon
\* which scan_universe logs the skip and continues with the next batch
AfterFailure(i) == IF i + 1 < Retries THEN "dl" ELSE "scan_loop"

ScanColumns == <<"Ticker", "LastPrice", "PctChange", "AvgVol20d", "TodayVol",
                 "VolRatio", "High20d", "Breakout">>

\* the sort key order of sort_values(["VolRatio","PctChange"], ascending=False):
\* a sorts strictly after b
KeyLess(a, b) ==
    \/ a.VolRatio < b.VolRatio
    \/ a.VolRatio = b.VolRatio /\ a.PctChange < b.PctChange

\* where r goes in the descending run s: before the first row that sorts
\* strictly after it (so behind every row with an equal key: a stable sort)
RECURSIVE InsertDesc_UnstableMutant(_, _)
InsertDesc_UnstableMutant(s, r) ==
    IF s = << >> THEN <<r>>
    ELSE IF ~KeyLess(r, Head(s)) THEN <<r>> \o s
    ELSE <<Head(s)>> \o InsertDesc_UnstableMutant(Tail(s), r)
RECURSIVE InsertDesc(_, _)
InsertDesc(s, r) ==
    IF s = << >> THEN <<r>>
    ELSE IF KeyLess(Head(s), r) THEN <<r>> \o s
    ELSE <<Head(s)>> \o InsertDesc(Tail(s), r)

RECURSIVE SortValues(_)
SortValues(rows) ==
    IF rows = << >> THEN << >>
    ELSE InsertDesc(SortValues(SubSeq(rows, 1, Len(rows) - 1)), rows[Len(rows)])

\* lines 188-192: the returned table
ScanTable(res) ==
    IF res = << >> THEN [columns |-> ScanColumns, rows |-> << >>]
    ELSE [columns |-> ScanColumns, rows |-> SortValues(res)]

\* for batch in chunk(tickers, BATCH): time.sleep(0.3); enter dl_batch
NextBatch ==
    /\ pc = "scan_loop"
    /\ bi < NumBatches(tickers)
    /\ bi' = bi + 1
    /\ att' = 0
    /\ pc' = "dl"
    /\ UNCHANGED << cfg, tieUp, tickers, ti, results, attempts, delays, evaluated,
                    scan, csv, discord, getAtt, resp, maxSymbols, universe >>

\* dl_batch, lines 62-74: the download returns a non-empty table
DlOk ==
    /\ pc = "dl"
    /\ att < Retries
    /\ attempts' = [attempts EXCEPT ![bi] = Append(@, "ok")]
    /\ ti' = 1
    /\ pc' = "eval"
    /\ UNCHANGED << cfg, tieUp, tickers, bi, att, results, delays, evaluated,
                    scan, csv, discord, getAtt, resp, maxSymbols, universe >>

\* dl_batch, lines 75-78 (and 144-146 when the attempts are used up): the
\* attempt failed, by an exception of the download or by the ValueError
\* raised at line 73 for a None or empty table
DlFailed ==
    /\ attempts' = [attempts EXCEPT ![bi] = Append(@, "fail")]
    /\ delays' = [delays EXCEPT ![bi] = Append(@, Backoff(att))]
    /\ att' = att + 1
    /\ pc' = AfterFailure(att)
    /\ UNCHANGED << cfg, tieUp, tickers, bi, ti, results, evaluated,
                    scan, csv, discord, getAtt, resp, maxSymbols, universe >>

DlEmpty ==
    /\ pc = "dl"
    /\ att < Retries
    /\ DlFailed

DlRaise ==
    /\ pc = "dl"
    /\ att < Retries
    /\ DlFailed

\* after ticker number i of the batch b was evaluated with outcome e
AfterTicker_AbortMutant(b, i, e) ==
    IF e.kind = "raise" THEN "crashed"
    ELSE IF i < Len(b) THEN "eval" ELSE "scan_loop"
AfterTicker(b, i, e) == IF i < Len(b) THEN "eval" ELSE "scan_loop"

\* for t in batch: lines 148-186
EvalTicker ==
    /\ pc = "eval"
    /\ LET b == Batch(tickers, bi)
           t == b[ti]
           e == Evaluate(cfg, t, tieUp)
       IN  /\ results' = IF e.kind = "accept" THEN Append(results, e.rec) ELSE results
           /\ evaluated' = Append(evaluated, t)
           /\ ti' = ti + 1
           /\ pc' = AfterTicker(b, ti, e)
    /\ UNCHANGED << cfg, tieUp, tickers, bi, att, attempts, delays,
                    scan, csv, discord, getAtt, resp, maxSymbols, universe >>

\* the loop is exhausted: lines 188-192
ScanReturn ==
    /\ pc = "scan_loop"
    /\ bi = NumBatches(tickers)
    /\ scan' = ScanTable(results)
    /\ pc' = "main"
    /\ UNCHANGED << cfg, tieUp, tickers, bi, att, ti, results, attempts, delays,
                    evaluated, csv, discord, getAtt, resp, maxSymbols, universe >>

----------------------------------------------------------------------------
(* main, lines 194-243, and format_discord, lines 122-133 *)

\* plan_rows, lines 211-217, on the recorded LastPrice px
Entry_NoFloorMutant(c, px, up) == Round4(px * 97, 100, up)
Entry(c, px, up) == Round4(Max2(c.MIN_PRICE * 100, px * 97), 100, up)
Stop(entry, up) == Round4(entry * 90, 100, up)
Target1(entry, up) == Round4(entry * 112, 100, up)
Target2_Round3Mutant(entry, up) == 100 * RoundRat(entry * 125, 10000, up)
Target2(entry, up) == Round4(entry * 125, 100, up)

ReportColumns == <<"Ticker", "LastPrice", "Entry", "Stop", "Target1", "Target2",
                   "VolRatio", "PctChange", "RecentNews48h">>

\* lines 208-221: one row of the table after the plan columns are added and
\* the table is cut down to ReportColumns
plan_rows(c, r, up) ==
    LET entry == Entry(c, r.LastPrice, up)
    IN  [Ticker |-> r.Ticker, LastPrice |-> r.LastPrice,
         Entry |-> entry, Stop |-> Stop(entry, up),
         Target1 |-> Target1(entry, up), Target2 |-> Target2(entry, up),
         VolRatio |-> r.VolRatio, PctChange |-> r.PctChange,
         RecentNews48h |-> "No"]

\* df.head(n): the first n rows; for a negative n all but the last -n rows
HeadDf(rows, n) ==
    IF n >= 0 THEN HeadN(rows, n)
    ELSE IF Len(rows) + n <= 0 THEN << >> ELSE SubSeq(rows, 1, Len(rows) + n)

\* line 224: the rows written to the CSV file
CsvRows(rows, top_n) == HeadDf(rows, top_n)

\* line 228: the top_n handed to format_discord
DiscordTopN_UncappedMutant(top_n) == top_n
DiscordTopN(top_n) == Min2(top_n, DiscordCap)

NoCandidatesText == "**Penny Scan Alert**\nNo candidates today."
AlertHeader == "**Penny Scan Alert**"

\* the number of decimal digits of n >= 0
RECURSIVE Digits(_)
Digits(n) == IF n < 10 THEN 1 ELSE 1 + Digits(n \div 10)

\* the length of the text Python prints for the float x / 10^k (k decimals
\* at most): the integer part, the point, the decimals without trailing zeros
RECURSIVE FracLen(_, _)
FracLen(f, k) == IF k <= 1 THEN 1
                 ELSE IF f % 10 # 0 THEN k ELSE FracLen(f \div 10, k - 1)
NumLen(x, k) ==
    LET a == IF x < 0 THEN -x ELSE x
    IN  (IF x < 0 THEN 1 ELSE 0) + Digits(a \div (10 ^ k)) + 1 + FracLen(a % (10 ^ k), k)

\* the characters one row adds to the digest: the "\n" of the join, then
\* the line of lines 128-130 (64 characters of fixed text and the fields)
LineLen(r) ==
    1 + 64 + Len(r.Ticker) + NumLen(r.LastPrice, 5) + NumLen(r.Entry, 5)
      + NumLen(r.Stop, 5) + NumLen(r.Target1, 5) + NumLen(r.Target2, 5)
      + NumLen(r.VolRatio, 2) + NumLen(r.PctChange, 2) + Len(r.RecentNews48h)

\* format_discord: the fixed text for an empty table, else the header and
\* one line for each of the first top_n rows
format_discord(rows, top_n) ==
    IF rows = << >> THEN [head |-> NoCandidatesText, lines |-> << >>]
    ELSE [head |-> AlertHeader, lines |-> HeadDf(rows, top_n)]

\* msg[:limit] as the lines that are wholly inside the first `limit`
\* characters and the number of characters kept
RECURSIVE WholeLines(_, _)
WholeLines(lines, room) ==
    IF lines = << >> \/ LineLen(Head(lines)) > room THEN << >>
    ELSE <<Head(lines)>> \o WholeLines(Tail(lines), room - LineLen(Head(lines)))

RECURSIVE LinesLen(_)
LinesLen(lines) == IF lines = << >> THEN 0
                   ELSE LineLen(Head(lines)) + LinesLen(Tail(lines))

Truncate(msg, limit) ==
    [head  |-> msg.head,
     lines |-> WholeLines(msg.lines, limit - Len(msg.head)),
     chars |-> Min2(limit, Len(msg.head) + LinesLen(msg.lines))]

\* lines 202-225: the table has rows; add the plan, cut the columns, write
\* the file; then lines 227-235
MainReport ==
    /\ pc = "main"
    /\ scan.rows # << >>
    /\ LET planned == [i \in 1..Len(scan.rows) |-> plan_rows(cfg, scan.rows[i], tieUp)]
       IN  /\ scan' = [columns |-> ReportColumns, rows |-> planned]
           /\ csv' = [columns |-> ReportColumns,
                      rows |-> CsvRows(planned, cfg.TOP_N)]
    /\ pc' = IF cfg.WEBHOOK THEN "post" ELSE "done"
    /\ UNCHANGED << cfg, tieUp, tickers, bi, att, ti, results, attempts, delays,
                    evaluated, discord, getAtt, resp, maxSymbols, universe >>

\* lines 228-233: the digest is posted; the post may raise, which is logged
PostReport ==
    /\ pc = "post"
    /\ \E delivered \in BOOLEAN :
         discord' = [content |-> Truncate(format_discord(scan.rows, DiscordTopN(cfg.TOP_N)),
                                          MsgLimit),
                     delivered |-> delivered]
    /\ pc' = "done"
    /\ UNCHANGED << cfg, tieUp, tickers, bi, att, ti, results, attempts, delays,
                    evaluated, scan, csv, getAtt, resp, maxSymbols, universe >>

\* lines 236-238: the table is empty
MainEmpty_SkipPostMutant ==
    /\ pc = "main"
    /\ scan.rows = << >>
    /\ pc' = "done"
    /\ UNCHANGED << cfg, tieUp, tickers, bi, att, ti, results, attempts, delays,
                    evaluated, scan, csv, discord, getAtt, resp, maxSymbols, universe >>
MainEmpty ==
    /\ pc = "main"
    /\ scan.rows = << >>
    /\ pc' = IF cfg.WEBHOOK THEN "post_empty" ELSE "done"
    /\ UNCHANGED << cfg, tieUp, tickers, bi, att, ti, results, attempts, delays,
                    evaluated, scan, csv, discord, getAtt, resp, maxSymbols, universe >>

\* lines 239-243
PostEmpty ==
    /\ pc = "post_empty"
    /\ \E delivered \in BOOLEAN :
         discord' = [content |-> [head |-> NoCandidatesText, lines |-> << >>,
                                  chars |-> Len(NoCandidatesText)],
                     delivered |-> delivered]
    /\ pc' = "done"
    /\ UNCHANGED << cfg, tieUp, tickers, bi, att, ti, results, attempts, delays,
                    evaluated, scan, csv, getAtt, resp, maxSymbols, universe >>

----------------------------------------------------------------------------
(* The run from scan_universe on: main's lines 199-243 over a universe.    *)

\* the sequences of distinct members of S of length at most n
DistinctSeqs(S, n) ==
    { s \in UNION { [1..k -> S] : k \in 0..n } :
        \A i, j \in 1..Len(s) : i # j => s[i] # s[j] }

\* universes of several batches
LongUniverses ==
    { <<"EDGE", "SHRT", "BAD", "ABC", "TWIN">>,
      <<"TWIN", "BIG", "ABC", "LONG", "EDGE">>,
      <<"ABC", "TIE", "OFFG", "OFFH", "TINY">>,
      <<"TIE", "LONG", "BIG">>,
      <<"SHRT", "TINY", "BAD">> }

Universes == DistinctSeqs(Catalogue, MaxUniverse) \cup LongUniverses

Init ==
    /\ cfg \in Configs
    /\ tieUp \in BOOLEAN
    /\ tickers \in Universes
    /\ pc = "scan_loop"
    /\ bi = 0
    /\ att = 0
    /\ ti = 0
    /\ results = << >>
    /\ attempts = [k \in 1..NumBatches(tickers) |-> << >>]
    /\ delays = [k \in 1..NumBatches(tickers) |-> << >>]
    /\ evaluated = << >>
    /\ scan = None
    /\ csv = None
    /\ discord = None
    /\ getAtt = 0
    /\ resp = None
    /\ maxSymbols = 0
    /\ universe = None

Next ==
    \/ NextBatch
    \/ DlOk
    \/ DlEmpty
    \/ DlRaise
    \/ EvalTicker
    \/ ScanReturn
    \/ MainReport
    \/ PostReport
    \/ MainEmpty
    \/ PostEmpty

Spec == Init /\ [][Next]_vars

----------------------------------------------------------------------------
(* The report stage alone: main's lines 202-243 on a ranked table of up to *)
(* MaxRows rows, for every TOP_N and MIN_PRICE of interest.  The rows are  *)
(* records the filter produces under the configuration (MakeRecord on      *)
(* values that pass every filter), in ranked order.                        *)

TopNs == {-1, 0, 1, 8, 10, 11, 12}
MinPrices == {10, 50, 70, 100, 50000, 50004}
RawPrices == {10 * k : k \in 1..40} \cup {14, 45, 104, 50004, 50006, 50010,
                                          106700, 110000, 299996}
Starts == {0, 12, 24, 36}

ReportConfigs ==
    { [CfgExample EXCEPT !.MIN_PRICE = m, !.TOP_N = k, !.WEBHOOK = w] :
        m \in MinPrices, k \in TopNs, w \in BOOLEAN }

SynthTickers == <<"A", "B", "C", "D", "E", "F", "G", "H", "I", "J", "K", "L",
                  "M", "N", "O", "P", "Q", "R">>

\* the prices of S in increasing order
RECURSIVE Ascending(_)
Ascending(S) ==
    IF S = {} THEN << >>
    ELSE LET m == CHOOSE x \in S : \A y \in S : x <= y
         IN  <<m>> \o Ascending(S \ {m})

\* row i of n: ratio and percent change whole numbers at or above the
\* thresholds, the ratio falling with i
SynthRow(c, i, n, px, up) ==
    LET ratN == (c.VOL_RATIO_THRESHOLD + 199) \div 200 + (n - i) \div 2
        pctN == (c.PCT_CHANGE_MIN + 199) \div 200 + ((n - i) % 2)
        avg  == [sum |-> c.MIN_AVG_VOL, n |-> 1]
    IN  MakeRecord(SynthTickers[i], px, pctN, 1, avg, ratN * c.MIN_AVG_VOL,
                   ratN, 1, px, up)

SynthTable(c, n, start, up) ==
    LET band == Ascending({p \in RawPrices : PriceBand(c, p)})
    IN  [i \in 1..n |-> SynthRow(c, i, n, band[((start + i) % Len(band)) + 1], up)]

InitReport ==
    /\ cfg \in ReportConfigs
    /\ tieUp \in BOOLEAN
    /\ \E n \in 0..MaxRows, start \in Starts :
         /\ results = SynthTable(cfg, n, start, tieUp)
         /\ scan = ScanTable(results)
    /\ pc = "main"
    /\ tickers = << >>
    /\ bi = 0
    /\ att = 0
    /\ ti = 0
    /\ attempts = << >>
    /\ delays = << >>
    /\ evaluated = << >>
    /\ csv = None
    /\ discord = None
    /\ getAtt = 0
    /\ resp = None
    /\ maxSymbols = 0
    /\ universe = None

NextReport ==
    \/ MainReport
    \/ PostReport
    \/ MainEmpty
    \/ PostEmpty

SpecReport == InitReport /\ [][NextReport]_vars

----------------------------------------------------------------------------
(* load_universe, lines 32-53, and safe_get, lines 23-30.  A symbol is the *)
(* sequence of its character codes; the empty cell (NaN) is << >>.         *)

SeedList == << <<82,82>>, <<83,78,68,76>>, <<66,66,73,71>>, <<71,77,69>>,
               <<65,77,67>>, <<78,78,68,77>>, <<71,78,83>>, <<78,65,75,68>>,
               <<67,69,73>>, <<77,65,82,65>>, <<82,73,79,84>> >>

\* cells of a remote Symbol column: GME, AMC, A, ZZZZZZ, BRK.A, and NaN
RawSymbols == { <<71,77,69>>, <<65,77,67>>, <<65>>, <<90,90,90,90,90,90>>,
                <<66,82,75,46,65>>, << >> }

Listings == UNION { [1..k -> RawSymbols] : k \in 0..MaxListing }

\* what safe_get can return: a response with a status and a body.  The
\* body is text that read_csv cannot parse, a table without a Symbol
\* column, or a table with one.
Responses ==
    { [kind |-> "response", status |-> 404, body |-> "error", symbols |-> << >>],
      [kind |-> "response", status |-> 500, body |-> "error", symbols |-> << >>],
      [kind |-> "response", status |-> 200, body |-> "unparsable", symbols |-> << >>],
      [kind |-> "response", status |-> 200, body |-> "no_symbol", symbols |-> << >>] }
    \cup { [kind |-> "response", status |-> 200, body |-> "table", symbols |-> l] :
             l \in Listings }

NoResponse == [kind |-> "none", status |-> 0, body |-> "none", symbols |-> << >>]

\* str order: by character code, a proper prefix first
RECURSIVE StrLess(_, _)
StrLess(a, b) ==
    IF b = << >> THEN FALSE
    ELSE IF a = << >> THEN TRUE
    ELSE IF Head(a) # Head(b) THEN Head(a) < Head(b)
    ELSE StrLess(Tail(a), Tail(b))

\* .dropna()
DropNa(col) == SelectSeq(col, LAMBDA x : x # << >>)

\* .unique(): first occurrences, in order
RECURSIVE Unique(_)
Unique(col) ==
    IF col = << >> THEN << >>
    ELSE LET front == Unique(SubSeq(col, 1, Len(col) - 1))
             x == col[Len(col)]
         IN  IF \E i \in 1..Len(front) : front[i] = x THEN front ELSE Append(front, x)

RECURSIVE InsertAsc(_, _)
InsertAsc(s, x) ==
    IF s = << >> THEN <<x>>
    ELSE IF StrLess(x, Head(s)) THEN <<x>> \o s
    ELSE <<Head(s)>> \o InsertAsc(Tail(s), x)

RECURSIVE Sorted(_)
Sorted(col) ==
    IF col = << >> THEN << >>
    ELSE InsertAsc(Sorted(SubSeq(col, 1, Len(col) - 1)), col[Len(col)])

IsLetter(ch) == (65 <= ch /\ ch <= 90) \/ (97 <= ch /\ ch <= 122)

\* line 52: isinstance(t, str) and t.isalpha() and 1 <= len(t) <= 5
ValidSymbol(t) ==
    /\ Len(t) >= 1 /\ Len(t) <= 5
    /\ \A i \in 1..Len(t) : IsLetter(t[i])

\* line 36: "r and r.status_code == 200"
Usable(r) == r.kind = "response" /\ r.status = 200

\* lines 37-42 and line 43's dfu['Symbol']: read_csv raises on a body it
\* cannot parse (the second read_csv stands inside the except clause, so
\* nothing catches it), and the column lookup raises KeyError
LoadRaises(r) == Usable(r) /\ r.body \in {"unparsable", "no_symbol"}

\* lines 43-45
Fetched(r) == IF Usable(r) THEN Sorted(Unique(DropNa(r.symbols))) ELSE << >>

\* lines 47-49
WithFallback(t) == IF t = << >> THEN SeedList ELSE t

\* lines 52-53
CleanAndCap_NoCapMutant(t, max_symbols) == SelectSeq(t, ValidSymbol)
CleanAndCap(t, max_symbols) == HeadDf(SelectSeq(t, ValidSymbol), max_symbols)

\* safe_get, lines 24-26: the GET returns a response
GetReturn ==
    /\ pc = "get"
    /\ getAtt < GetRetries
    /\ resp' \in Responses
    /\ pc' = "load"
    /\ UNCHANGED << cfg, tieUp, tickers, bi, att, ti, results, attempts, delays,
                    evaluated, scan, csv, discord, getAtt, maxSymbols, universe >>

\* safe_get, lines 27-30: the GET raises; after the last attempt None is returned
GetRaise ==
    /\ pc = "get"
    /\ getAtt < GetRetries
    /\ getAtt' = getAtt + 1
    /\ IF getAtt + 1 < GetRetries
       THEN pc' = "get" /\ resp' = resp
       ELSE pc' = "load" /\ resp' = NoResponse
    /\ UNCHANGED << cfg, tieUp, tickers, bi, att, ti, results, attempts, delays,
                    evaluated, scan, csv, discord, maxSymbols, universe >>

\* lines 36-43: an exception leaves load_universe
LoadCrash ==
    /\ pc = "load"
    /\ LoadRaises(resp)
    /\ pc' = "crashed"
    /\ UNCHANGED << cfg, tieUp, tickers, bi, att, ti, results, attempts, delays,
                    evaluated, scan, csv, discord, getAtt, resp, maxSymbols, universe >>

\* lines 36-53: load_universe returns
LoadReturn ==
    /\ pc = "load"
    /\ ~LoadRaises(resp)
    /\ universe' = CleanAndCap(WithFallback(Fetched(resp)), maxSymbols)
    /\ pc' = "loaded"
    /\ UNCHANGED << cfg, tieUp, tickers, bi, att, ti, results, attempts, delays,
                    evaluated, scan, csv, discord, getAtt, resp, maxSymbols >>

InitLoad ==
    /\ maxSymbols \in (0..MaxSymbolsArg) \cup {DefaultMaxSymbols}
    /\ pc = "get"
    /\ getAtt = 0
    /\ resp = None
    /\ universe = None
    /\ cfg = CfgDefault
    /\ tieUp = FALSE
    /\ tickers = << >>
    /\ bi = 0
    /\ att = 0
    /\ ti = 0
    /\ results = << >>
    /\ attempts = << >>
    /\ delays = << >>
    /\ evaluated = << >>
    /\ scan = None
    /\ csv = None
    /\ discord = None

NextLoad ==
    \/ GetReturn
    \/ GetRaise
    \/ LoadCrash
    \/ LoadReturn

SpecLoad == InitLoad /\ [][NextLoad]_vars

----------------------------------------------------------------------------
(* Properties *)

Range(s) == { s[i] : i \in 1..Len(s) }
NoDuplicates(s) == \A i, j \in 1..Len(s) : i # j => s[i] # s[j]
Last(s) == s[Len(s)]
AllFail(s) == \A i \in 1..Len(s) : s[i] = "fail"
AfterScan == pc \in {"main", "post", "post_empty", "done"}
Planned == scan # None /\ scan.columns = ReportColumns

(* C1.  As claimed: every record appended to results has stored fields with
   MIN_PRICE <= LastPrice < MAX_PRICE, AvgVol20d >= MIN_AVG_VOL,
   VolRatio >= VOL_RATIO_THRESHOLD and PctChange >= PCT_CHANGE_MIN. *)
C1_StoredFieldsPassFilters ==
    \A i \in 1..Len(results) :
        LET r == results[i] IN
        /\ cfg.MIN_PRICE <= r.LastPrice /\ r.LastPrice < cfg.MAX_PRICE
        /\ r.AvgVol20d >= cfg.MIN_AVG_VOL
        /\ r.VolRatio * 2 >= cfg.VOL_RATIO_THRESHOLD
        /\ r.PctChange * 2 >= cfg.PCT_CHANGE_MIN

(* C1, amended.  The filters pass on the unrounded values, so every stored
   field satisfies its filter up to the rounding of the stored value:
   MIN_PRICE - 0.00005 <= LastPrice <= MAX_PRICE + 0.00005,
   AvgVol20d >= MIN_AVG_VOL, VolRatio >= VOL_RATIO_THRESHOLD - 0.005,
   PctChange >= PCT_CHANGE_MIN - 0.005; and where the threshold is a multiple
   of the stored precision the bound holds with no slack, the upper price
   bound as LastPrice <= MAX_PRICE (not strict). *)
C1_StoredFieldsWithinRounding ==
    \A i \in 1..Len(results) :
        LET r == results[i] IN
        /\ r.LastPrice >= cfg.MIN_PRICE - 5
        /\ r.LastPrice <= cfg.MAX_PRICE + 5
        /\ OnGrid4(cfg.MIN_PRICE) => r.LastPrice >= cfg.MIN_PRICE
        /\ OnGrid4(cfg.MAX_PRICE) => r.LastPrice <= cfg.MAX_PRICE
        /\ r.AvgVol20d >= cfg.MIN_AVG_VOL
        /\ r.VolRatio * 2 >= cfg.VOL_RATIO_THRESHOLD - 1
        /\ OnGrid2(cfg.VOL_RATIO_THRESHOLD) => r.VolRatio * 2 >= cfg.VOL_RATIO_THRESHOLD
        /\ r.PctChange * 2 >= cfg.PCT_CHANGE_MIN - 1
        /\ OnGrid2(cfg.PCT_CHANGE_MIN) => r.PctChange * 2 >= cfg.PCT_CHANGE_MIN

\* a record whose last price 2.99996 was stored as MAX_PRICE = 3.0
C1_Witness ==
    /\ AfterScan
    /\ \E i \in 1..Len(results) : results[i].LastPrice = cfg.MAX_PRICE

(* C2.  As claimed: for any last price P >= MIN_PRICE the plan has
   entry <= P, stop < entry < target1 < target2 and entry >= MIN_PRICE. *)
PlanOrdered(r) ==
    /\ r.Entry <= r.LastPrice
    /\ r.Stop < r.Entry /\ r.Entry < r.Target1 /\ r.Target1 < r.Target2
    /\ r.Entry >= cfg.MIN_PRICE

C2_PlanOrderedForAnyFloor ==
    Planned =>
        \A i \in 1..Len(scan.rows) :
            scan.rows[i].LastPrice >= cfg.MIN_PRICE => PlanOrdered(scan.rows[i])

(* C2, amended.  The same, for a MIN_PRICE that is a multiple of 0.0001 and
   at least 0.0007 (the default 0.50 is both); P is the stored last price,
   a multiple of 0.0001. *)
C2_PlanOrderedForGridFloor ==
    (Planned /\ OnGrid4(cfg.MIN_PRICE) /\ cfg.MIN_PRICE >= 70) =>
        \A i \in 1..Len(scan.rows) :
            scan.rows[i].LastPrice >= cfg.MIN_PRICE => PlanOrdered(scan.rows[i])

\* the floor decided the entry, at the smallest floor the amended claim covers
C2_Witness ==
    /\ Planned
    /\ cfg.MIN_PRICE = 70
    /\ \E i \in 1..Len(scan.rows) :
         /\ scan.rows[i].LastPrice = 70
         /\ scan.rows[i].Entry = 70
    /\ \E i \in 1..Len(scan.rows) :
         /\ scan.rows[i].LastPrice >= 100
         /\ scan.rows[i].Entry < scan.rows[i].LastPrice

(* C3.  The table scan_universe returns is in descending order of VolRatio,
   then of PctChange, and rows with equal (VolRatio, PctChange) stand in the
   order in which they were appended to results. *)
PosIn(s, t) == CHOOSE i \in 1..Len(s) : s[i].Ticker = t
SameKeys(a, b) == a.VolRatio = b.VolRatio /\ a.PctChange = b.PctChange

C3_SortedStable ==
    scan # None =>
        /\ Len(scan.rows) = Len(results)
        /\ { r.Ticker : r \in Range(scan.rows) } = { r.Ticker : r \in Range(results) }
        /\ \A i, j \in 1..Len(scan.rows) :
             i < j =>
               /\ \/ scan.rows[i].VolRatio > scan.rows[j].VolRatio
                  \/ /\ scan.rows[i].VolRatio = scan.rows[j].VolRatio
                     /\ scan.rows[i].PctChange >= scan.rows[j].PctChange
               /\ SameKeys(scan.rows[i], scan.rows[j]) =>
                    PosIn(results, scan.rows[i].Ticker) < PosIn(results, scan.rows[j].Ticker)

\* the sort moved rows, and two rows with equal keys kept their order
C3_Witness ==
    /\ pc = "main"
    /\ Len(scan.rows) >= 4
    /\ scan.rows # results
    /\ \E i, j \in 1..Len(scan.rows) : i < j /\ SameKeys(scan.rows[i], scan.rows[j])

(* C4.  A batch whose fetch fails on every attempt, or a ticker whose
   evaluation raises, contributes no record and never aborts the run: no
   exception leaves scan_universe, every batch is fetched, every ticker of
   a fetched batch is evaluated, and the records are exactly those of the
   universe without the failed batches and the raising tickers. *)
BatchOk(k) == attempts[k] # << >> /\ Last(attempts[k]) = "ok"
BatchExhausted(k) == Len(attempts[k]) = Retries /\ AllFail(attempts[k])

\* the tickers whose evaluation the loop has gone through so far
RECURSIVE TickersDone(_)
TickersDone(k) ==
    IF k = 0 THEN << >>
    ELSE TickersDone(k - 1) \o
         (IF ~BatchOk(k) THEN << >>
          ELSE IF k = bi /\ pc = "eval" THEN SubSeq(Batch(tickers, k), 1, ti - 1)
          ELSE Batch(tickers, k))

\* the universe without the tickers of the batches given up so far and
\* without the tickers whose evaluation raises
BatchOf(i) == (i - 1) \div BATCH + 1
Survivors ==
    LET idx == { i \in 1..Len(tickers) :
                   /\ ~BatchExhausted(BatchOf(i))
                   /\ Evaluate(cfg, tickers[i], tieUp).kind # "raise" }
    IN  SelectSeq([i \in 1..Len(tickers) |-> IF i \in idx THEN tickers[i] ELSE "-"],
                  LAMBDA t : t # "-")

\* what the filter yields on a universe where nothing fails
RECURSIVE RecordsOf(_)
RecordsOf(ts) ==
    IF ts = << >> THEN << >>
    ELSE LET e == Evaluate(cfg, Head(ts), tieUp)
         IN  (IF e.kind = "accept" THEN <<e.rec>> ELSE << >>) \o RecordsOf(Tail(ts))

C4_FailuresAreIsolated ==
    /\ pc # "crashed"
    /\ evaluated = TickersDone(bi)
    /\ AfterScan =>
         /\ bi = NumBatches(tickers)
         /\ \A k \in 1..NumBatches(tickers) : BatchOk(k) \/ BatchExhausted(k)
         /\ results = RecordsOf(Survivors)

\* the first batch was given up, the second held a raising ticker and then
\* an accepted one, the third was fetched, and the run went on to main
C4_Witness ==
    /\ AfterScan
    /\ NumBatches(tickers) = 3
    /\ BatchExhausted(1) /\ BatchOk(2) /\ BatchOk(3)
    /\ \E i \in 1..Len(evaluated) :
         /\ Evaluate(cfg, evaluated[i], tieUp).kind = "raise"
         /\ i < Len(evaluated)
         /\ Evaluate(cfg, evaluated[i + 1], tieUp).kind = "accept"
    /\ Len(results) >= 2

(* C5.  For each batch dl_batch makes at most `retries` attempts, stops at
   the first non-empty result, counts an exception or an empty result as a
   failed attempt, sleeps a delay that grows strictly with the attempt
   index after each failure, and returns None when the attempts are used
   up; scan_universe never attempts such a batch again. *)
C5_BoundedRetries ==
    \A k \in 1..NumBatches(tickers) :
        /\ Len(attempts[k]) <= Retries
        /\ \A i \in 1..(Len(attempts[k]) - 1) : attempts[k][i] = "fail"
        /\ Len(delays[k]) = Cardinality({ i \in 1..Len(attempts[k]) : attempts[k][i] = "fail" })
        /\ \A i \in 1..(Len(delays[k]) - 1) : delays[k][i] < delays[k][i + 1]
        /\ k > bi => attempts[k] = << >>
        /\ (k = bi /\ pc = "dl") => (AllFail(attempts[k]) /\ Len(attempts[k]) = att)
        /\ (k = bi /\ pc = "eval") => BatchOk(k)
        /\ (k < bi \/ (k = bi /\ pc \notin {"dl", "eval"})) =>
              (BatchOk(k) \/ BatchExhausted(k))

\* one batch fetched at the third attempt, another given up after three
C5_Witness ==
    /\ AfterScan
    /\ \E k \in 1..NumBatches(tickers) :
         attempts[k] = <<"fail", "fail", "ok">> /\ delays[k] = <<2, 4>>
    /\ \E k \in 1..NumBatches(tickers) :
         BatchExhausted(k) /\ delays[k] = <<2, 4, 6>>

(* C7.  As claimed: when the scan yields no candidates the run completes
   and emits a report artifact (an empty table with the full column schema)
   and, with a webhook configured, the fixed "no candidates" notification. *)
C7_EmptyScanWritesReport ==
    (pc = "done" /\ results = << >>) =>
        /\ csv # None
        /\ csv.rows = << >>
        /\ csv.columns \in {ScanColumns, ReportColumns}
        /\ cfg.WEBHOOK =>
             /\ discord # None
             /\ discord.content.head = NoCandidatesText

(* C7, amended.  When the scan yields no candidates the run completes
   (nothing raises and the run stops only at its end); scan_universe's
   table is empty with its eight columns; no output file is written; with a
   webhook configured the fixed "no candidates" text is posted, and nothing
   is posted without one. *)
C7_EmptyScanNotifiesOnly ==
    /\ (scan # None /\ results = << >>) =>
         /\ scan = [columns |-> ScanColumns, rows |-> << >>]
         /\ pc # "crashed"
         /\ pc # "done" => ENABLED Next
    /\ (pc = "done" /\ results = << >>) =>
         /\ csv = None
         /\ cfg.WEBHOOK =>
              /\ discord # None
              /\ discord.content.head = NoCandidatesText
              /\ discord.content.lines = << >>
              /\ discord.content.chars = Len(NoCandidatesText)
         /\ ~cfg.WEBHOOK => discord = None

\* a run that ended without candidates, one batch given up and the tickers
\* of another all rejected or skipped, the webhook configured
C7_Witness ==
    /\ pc = "done"
    /\ results = << >>
    /\ cfg.WEBHOOK
    /\ evaluated # << >>
    /\ \E k \in 1..NumBatches(tickers) : BatchExhausted(k)
    /\ discord # None

(* C10.  As claimed (Example 1): ABC is accepted with last price 1.10,
   average volume 100000, volume ratio 5.0, percent change 10.0, and plan
   entry 1.067, stop 0.960, target1 1.195, target2 1.334. *)
AbcRecord(rows) == rows[PosIn(rows, "ABC")]
AbcEvaluated == cfg = CfgExample /\ "ABC" \in Range(evaluated)
AbcPlanned == AbcEvaluated /\ Planned

C10_ExampleAsStated ==
    /\ AbcEvaluated =>
         /\ "ABC" \in { r.Ticker : r \in Range(results) }
         /\ AbcRecord(results).LastPrice = 110000
         /\ AbcRecord(results).AvgVol20d = 100000
         /\ AbcRecord(results).VolRatio = 500
         /\ AbcRecord(results).PctChange = 1000
    /\ AbcPlanned =>
         /\ AbcRecord(scan.rows).Entry = 106700
         /\ AbcRecord(scan.rows).Stop = 96000
         /\ AbcRecord(scan.rows).Target1 = 119500
         /\ AbcRecord(scan.rows).Target2 = 133400

(* C10, amended.  ABC is accepted with last price 1.10, average volume
   166666 (the mean of all six volumes, 166666.67, truncated), volume ratio
   3.0 and percent change 10.0; its plan is entry 1.067, stop 0.9603,
   target1 1.195 and target2 1.3337 or 1.3338 (1.33375 lies half way; the
   double computed for it decides). *)
C10_ExampleAsComputed ==
    /\ AbcEvaluated =>
         /\ "ABC" \in { r.Ticker : r \in Range(results) }
         /\ AbcRecord(results).LastPrice = 110000
         /\ AbcRecord(results).AvgVol20d = 166666
         /\ AbcRecord(results).TodayVol = 500000
         /\ AbcRecord(results).VolRatio = 300
         /\ AbcRecord(results).PctChange = 1000
    /\ AbcPlanned =>
         /\ AbcRecord(scan.rows).Entry = 106700
         /\ AbcRecord(scan.rows).Stop = 96030
         /\ AbcRecord(scan.rows).Target1 = 119500
         /\ AbcRecord(scan.rows).Target2 = (IF tieUp THEN 133380 ELSE 133370)

\* the example's run ended with ABC's plan in the output file
C10_Witness ==
    /\ pc = "done"
    /\ cfg = CfgExample
    /\ tickers = <<"ABC">>
    /\ csv # None
    /\ "ABC" \in { r.Ticker : r \in Range(csv.rows) }

(* C8.  As claimed: for every TOP_N (a row count, so TOP_N >= 0) and every
   non-empty ranked table the output file and the notification hold the
   same rows, the first TOP_N rows of the ranked table in ranked order. *)
Reported == pc = "done" /\ csv # None /\ discord # None

C8_SameRowsInFileAndText ==
    (Reported /\ cfg.TOP_N >= 0) =>
        /\ csv.rows = HeadN(scan.rows, cfg.TOP_N)
        /\ discord.content.lines = HeadN(scan.rows, cfg.TOP_N)

(* C8, amended.  The output file holds scan.head(TOP_N); the notification
   lists scan.head(min(TOP_N, 10)), none of its lines cut by the 1900
   character limit; so the two hold the same rows when TOP_N <= 10 or the
   table has at most 10 rows, and otherwise the notification stops after
   the tenth row.  (head(n) of a negative n drops the last -n rows.) *)
FirstRows(n) ==
    IF n >= 0 THEN [i \in 1..Min2(n, Len(scan.rows)) |-> scan.rows[i]]
    ELSE [i \in 1..Max2(0, Len(scan.rows) + n) |-> scan.rows[i]]

C8_TextCappedAtTen ==
    Reported =>
        /\ csv.rows = FirstRows(cfg.TOP_N)
        /\ discord.content.lines = FirstRows(IF cfg.TOP_N <= 10 THEN cfg.TOP_N ELSE 10)
        /\ discord.content.head = AlertHeader
        /\ discord.content.chars <= MsgLimit
        /\ (cfg.TOP_N <= 10 \/ Len(scan.rows) <= 10) => discord.content.lines = csv.rows
        /\ (cfg.TOP_N > 10 /\ Len(scan.rows) > 10) =>
              (Len(discord.content.lines) = 10 /\ Len(csv.rows) > 10)

\* eleven rows in the file, ten in the notification
C8_Witness ==
    /\ Reported
    /\ Len(csv.rows) = 11
    /\ Len(discord.content.lines) = 10

(* C6.  load_universe never fails outward: whatever the remote fetch brings
   (no response after every attempt, a status other than 200, a body that
   does not parse, a table without a Symbol column) it returns, and then
   with entries of the seed list. *)
FetchFailed(r) ==
    \/ r.kind = "none"
    \/ r.status # 200
    \/ r.body \in {"unparsable", "no_symbol"}

C6_NeverFailsOutward ==
    /\ pc # "crashed"
    /\ (pc = "loaded" /\ FetchFailed(resp)) => Range(universe) \subseteq Range(SeedList)

(* C9.  As claimed: on the remote path and on the fallback path alike the
   returned list holds only alphabetic symbols of 1 to 5 letters, no
   duplicates, is sorted, and is the first max_symbols of the sorted valid
   symbols. *)
Alphabetic1To5(t) ==
    /\ Len(t) \in 1..5
    /\ \A i \in 1..Len(t) : t[i] \in (65..90) \cup (97..122)

IsSortedStr(u) == \A i, j \in 1..Len(u) : i < j => StrLess(u[i], u[j])

SourceSymbols == IF Fetched(resp) # << >> THEN Range(resp.symbols) ELSE Range(SeedList)
ValidSource == { x \in SourceSymbols : Alphabetic1To5(x) }

\* u holds the min(m, |S|) smallest members of S
SmallestOf(u, S, m) ==
    /\ Range(u) \subseteq S
    /\ Len(u) = Min2(m, Cardinality(S))
    /\ \A x \in S \ Range(u) : \A y \in Range(u) : StrLess(y, x)

C9_SortedOnEveryPath ==
    pc = "loaded" =>
        /\ \A i \in 1..Len(universe) : Alphabetic1To5(universe[i])
        /\ NoDuplicates(universe)
        /\ Len(universe) <= maxSymbols
        /\ IsSortedStr(universe)
        /\ SmallestOf(universe, ValidSource, maxSymbols)

(* C9, amended.  The returned list holds only alphabetic symbols of 1 to 5
   letters, no duplicates and at most max_symbols entries.  When the remote
   Symbol column has entries it is sorted and is the first max_symbols of
   the sorted valid remote symbols; on the fallback path it is the first
   max_symbols entries of the seed list in the seed list's own order, which
   is not sorted. *)
IsPrefixOf(u, s) == Len(u) <= Len(s) /\ \A i \in 1..Len(u) : u[i] = s[i]

C9_SortedOnRemotePath ==
    pc = "loaded" =>
        /\ \A i \in 1..Len(universe) : Alphabetic1To5(universe[i])
        /\ NoDuplicates(universe)
        /\ Len(universe) <= maxSymbols
        /\ Fetched(resp) # << >> =>
             /\ IsSortedStr(universe)
             /\ SmallestOf(universe, ValidSource, maxSymbols)
        /\ Fetched(resp) = << >> =>
             /\ IsPrefixOf(universe, SeedList)
             /\ Len(universe) = Min2(maxSymbols, Len(SeedList))

\* the fallback list came back in seed order, which is not sorted
C9_Witness ==
    /\ pc = "loaded"
    /\ Len(universe) >= 3
    /\ Fetched(resp) = << >>
    /\ ~IsSortedStr(universe)

====
